---- MODULE Spec2Model ----
(***************************************************************************)
(* Pixel-level compositing and brush rendering of MyPaint                  *)
(* (lib/brushmodes.hpp and the tile operations of lib/pixops).             *)
(*                                                                         *)
(* All buffers are flat arrays of channel elements, indexed from 0 as the  *)
(* C pointers are: pixel k of a tile occupies elements 4k .. 4k+3 in the   *)
(* order R, G, B, A.  16-bit stores are taken modulo 2^16.  The 32-bit and  *)
(* 64-bit intermediates of the code never exceed 2^30 for channel values,  *)
(* mask values and opacities in 0 .. 2^15, which is the range of every     *)
(* input drawn here; TLC's own integers are 32 bits wide and it stops with *)
(* an overflow error on anything larger, so no wrap-around goes unnoticed. *)
(***************************************************************************)
EXTENDS Integers, Sequences, FiniteSets, TLC

VARIABLES
    rgba,             \* brush dabs: the 16-bit premultiplied tile painted into
    dab,              \* brush dabs: the last draw_dab_pixels_* call
    mip_src,          \* downscaler: the source tile
    mip_dst,          \* downscaler: the tile whose quadrants are written
    mip,              \* downscaler: the last tile_downscale_rgba16 call
    flat_dst,         \* flatten/unflatten: the tile converted in place
    flat_bg,          \* flatten/unflatten: the opaque background tile
    flat,             \* flatten/unflatten: the last call, the call before it
                      \*   and flat_dst as the last call found it
    stroke_a,         \* stroke map: snapshot of the layer before the stroke
    stroke_b,         \* stroke map: snapshot of the layer after the stroke
    stroke_res,       \* stroke map: the 8-bit output, one element per pixel
    stroke,           \* stroke map: the last call
    tile8,            \* converters: the 8-bit straight-alpha tile
    tile16,           \* converters: the 16-bit premultiplied tile
    dithering_noise,  \* converters: the static noise table
    have_noise,       \* converters: the static flag of the noise table
    conv,             \* converters: the last tile_convert_* call
    comp_src,         \* compositing: the source tile
    comp_dst,         \* compositing: the destination tile
    comp,             \* compositing: the last tile_composite_* call
    sums,             \* colour picking: the float sums the caller passes in
    ctx,              \* concurrent first use: what each execution context
                      \*   is doing inside its conversion call
    cc,               \* colour changer: the fields of the ColorChanger object
    picked,           \* colour changer: the last call and what it read
    calls             \* number of operations performed so far

dabVars == <<rgba, dab>>
mipVars == <<mip_src, mip_dst, mip>>
flatVars == <<flat_dst, flat_bg, flat>>
strokeVars == <<stroke_a, stroke_b, stroke_res, stroke>>
convVars == <<tile8, tile16, dithering_noise, have_noise, conv>>
compVars == <<comp_src, comp_dst, comp>>
pickVars == <<sums>>
raceVars == <<ctx>>
changerVars == <<cc, picked>>
vars == <<dabVars, mipVars, flatVars, strokeVars, convVars, compVars, pickVars,
          raceVars, changerVars, calls>>
notDab == <<mipVars, flatVars, strokeVars, convVars, compVars,
            pickVars, raceVars, changerVars>>
notMip == <<dabVars, flatVars, strokeVars, convVars, compVars,
            pickVars, raceVars, changerVars>>
notFlat == <<dabVars, mipVars, strokeVars, convVars, compVars,
             pickVars, raceVars, changerVars>>
notStroke == <<dabVars, mipVars, flatVars, convVars, compVars,
               pickVars, raceVars, changerVars>>
notConv == <<dabVars, mipVars, flatVars, strokeVars, compVars,
             pickVars, raceVars, changerVars>>
notComp == <<dabVars, mipVars, flatVars, strokeVars, convVars,
             pickVars, raceVars, changerVars>>
notPick == <<mipVars, flatVars, strokeVars, convVars, compVars, raceVars,
             changerVars>>
notRace == <<dabVars, mipVars, flatVars, strokeVars, compVars, pickVars,
             changerVars>>
notChanger == <<dabVars, mipVars, flatVars, strokeVars, convVars, compVars,
                pickVars, raceVars>>

(***************************************************************************)
(* Fixed point and integer widths                                          *)
(***************************************************************************)
fix15_one == 32768

\* a store into a uint16_t
U16(x) == x % 65536
\* a uint32_t intermediate; always below 2^31 here (see above)
U32(x) == x

MAX(a, b) == IF a > b THEN a ELSE b
MIN(a, b) == IF a < b THEN a ELSE b
CLAMP(x, lo, hi) == IF x > hi THEN hi ELSE IF x < lo THEN lo ELSE x
abs(x) == IF x < 0 THEN -x ELSE x

\* element i (0-based) of a C array given as a TLA+ sequence
At(s, i) == s[i + 1]

(***************************************************************************)
(* Bounds of the model                                                     *)
(***************************************************************************)
\* pixels of the buffer handed to the dab functions
DabPixels == 24
\* dabs per behaviour
MaxDabs == 2
\* edge length of a tile in pixels (64 in the program)
TILE_SIZE == 4
\* tile operations other than dabs and conversions per behaviour
MaxCalls == 3
\* conversions per behaviour
MaxConvCalls == 2
\* composite calls per behaviour
MaxCompCalls == 1
\* dabs of one stroke between two stroke maps
MaxStrokeDabs == 1
\* get_color_pixels_accumulate calls per behaviour
MaxPickCalls == 2
\* entries of the noise table whose stores and loads are followed one by
\* one when two contexts convert at once; the rest of a loop is one step
RaceEntries == 2
\* calls on the ColorChanger object per behaviour
MaxChangerCalls == 5

(***************************************************************************)
(* Brush dabs (lib/brushmodes.hpp)                                         *)
(***************************************************************************)

\* the walk with the skip taken as a number of pixels
RECURSIVE MaskWalk_SkipPixels(_, _, _)
MaskWalk_SkipPixels(mask, mi, ri) ==
    IF At(mask, mi) # 0
    THEN <<  <<ri, At(mask, mi)>>  >> \o MaskWalk_SkipPixels(mask, mi + 1, ri + 4)
    ELSE IF At(mask, mi + 1) = 0
         THEN << >>
         ELSE MaskWalk_SkipPixels(mask, mi + 2, ri + 4 * At(mask, mi + 1))

\* The walk over the run-length encoded mask shared by all dab functions:
\*   while (1) { for (; mask[0]; mask++, rgba+=4) {...}
\*               if (!mask[1]) break;  rgba += mask[1];  mask += 2; }
\* mi is the mask pointer, ri the rgba pointer (both in elements).  The
\* result is the sequence of <<rgba offset, mask value>> of the loop bodies.
RECURSIVE MaskWalk(_, _, _)
MaskWalk(mask, mi, ri) ==
    IF At(mask, mi) # 0
    THEN <<  <<ri, At(mask, mi)>>  >> \o MaskWalk(mask, mi + 1, ri + 4)
    ELSE IF At(mask, mi + 1) = 0
         THEN << >>
         ELSE MaskWalk(mask, mi + 2, ri + At(mask, mi + 1))

\* the loop body with a resulting alpha that leaves out topAlpha
Normal_pixel_NoTopAlpha(buf, ri, m, c, opacity) ==
    LET opa_a == U32(m * opacity) \div fix15_one
        opa_b == U32(fix15_one - opa_a)
    IN  [buf EXCEPT
           ![ri + 3] = U16(U32(opa_b * buf[ri + 3]) \div fix15_one),
           ![ri + 0] = U16(U32(opa_a * c.r + opa_b * buf[ri + 0]) \div fix15_one),
           ![ri + 1] = U16(U32(opa_a * c.g + opa_b * buf[ri + 1]) \div fix15_one),
           ![ri + 2] = U16(U32(opa_a * c.b + opa_b * buf[ri + 2]) \div fix15_one)]

\* loop body of draw_dab_pixels_BlendMode_Normal at rgba offset ri
Normal_pixel(buf, ri, m, c, opacity) ==
    LET opa_a == U32(m * opacity) \div fix15_one
        opa_b == U32(fix15_one - opa_a)
    IN  [buf EXCEPT
           ![ri + 3] = U16(U32(opa_a + U32(opa_b * buf[ri + 3]) \div fix15_one)),
           ![ri + 0] = U16(U32(opa_a * c.r + opa_b * buf[ri + 0]) \div fix15_one),
           ![ri + 1] = U16(U32(opa_a * c.g + opa_b * buf[ri + 1]) \div fix15_one),
           ![ri + 2] = U16(U32(opa_a * c.b + opa_b * buf[ri + 2]) \div fix15_one)]

\* the loop body with topAlpha scaled by color_a / 2^16
Normal_and_Eraser_pixel_Shift16(buf, ri, m, c, opacity) ==
    LET opa_a0 == U32(m * opacity) \div fix15_one
        opa_b  == U32(fix15_one - opa_a0)
        opa_a  == U32(opa_a0 * c.a) \div 65536
    IN  [buf EXCEPT
           ![ri + 3] = U16(U32(opa_a + U32(opa_b * buf[ri + 3]) \div fix15_one)),
           ![ri + 0] = U16(U32(opa_a * c.r + opa_b * buf[ri + 0]) \div fix15_one),
           ![ri + 1] = U16(U32(opa_a * c.g + opa_b * buf[ri + 1]) \div fix15_one),
           ![ri + 2] = U16(U32(opa_a * c.b + opa_b * buf[ri + 2]) \div fix15_one)]

\* the loop body with color_a scaling the alpha only, not the colour
Normal_and_Eraser_pixel_ColorUnscaled(buf, ri, m, c, opacity) ==
    LET opa_a0 == U32(m * opacity) \div fix15_one
        opa_b  == U32(fix15_one - opa_a0)
        opa_a  == U32(opa_a0 * c.a) \div fix15_one
    IN  [buf EXCEPT
           ![ri + 3] = U16(U32(opa_a + U32(opa_b * buf[ri + 3]) \div fix15_one)),
           ![ri + 0] = U16(U32(opa_a0 * c.r + opa_b * buf[ri + 0]) \div fix15_one),
           ![ri + 1] = U16(U32(opa_a0 * c.g + opa_b * buf[ri + 1]) \div fix15_one),
           ![ri + 2] = U16(U32(opa_a0 * c.b + opa_b * buf[ri + 2]) \div fix15_one)]

\* loop body of draw_dab_pixels_BlendMode_Normal_and_Eraser
Normal_and_Eraser_pixel(buf, ri, m, c, opacity) ==
    LET opa_a0 == U32(m * opacity) \div fix15_one
        opa_b  == U32(fix15_one - opa_a0)
        opa_a  == U32(opa_a0 * c.a) \div fix15_one
    IN  [buf EXCEPT
           ![ri + 3] = U16(U32(opa_a + U32(opa_b * buf[ri + 3]) \div fix15_one)),
           ![ri + 0] = U16(U32(opa_a * c.r + opa_b * buf[ri + 0]) \div fix15_one),
           ![ri + 1] = U16(U32(opa_a * c.g + opa_b * buf[ri + 1]) \div fix15_one),
           ![ri + 2] = U16(U32(opa_a * c.b + opa_b * buf[ri + 2]) \div fix15_one)]

\* the loop body with the alpha store of BlendMode_Normal left in
LockAlpha_pixel_WritesAlpha(buf, ri, m, c, opacity) ==
    LET opa_a0 == U32(m * opacity) \div fix15_one
        opa_b  == U32(fix15_one - opa_a0)
        opa_a  == U32(opa_a0 * buf[ri + 3]) \div fix15_one
    IN  [buf EXCEPT
           ![ri + 3] = U16(U32(opa_a + U32(opa_b * buf[ri + 3]) \div fix15_one)),
           ![ri + 0] = U16(U32(opa_a * c.r + opa_b * buf[ri + 0]) \div fix15_one),
           ![ri + 1] = U16(U32(opa_a * c.g + opa_b * buf[ri + 1]) \div fix15_one),
           ![ri + 2] = U16(U32(opa_a * c.b + opa_b * buf[ri + 2]) \div fix15_one)]

\* loop body of draw_dab_pixels_BlendMode_LockAlpha
LockAlpha_pixel(buf, ri, m, c, opacity) ==
    LET opa_a0 == U32(m * opacity) \div fix15_one
        opa_b  == U32(fix15_one - opa_a0)
        opa_a  == U32(opa_a0 * buf[ri + 3]) \div fix15_one
    IN  [buf EXCEPT
           ![ri + 0] = U16(U32(opa_a * c.r + opa_b * buf[ri + 0]) \div fix15_one),
           ![ri + 1] = U16(U32(opa_a * c.g + opa_b * buf[ri + 1]) \div fix15_one),
           ![ri + 2] = U16(U32(opa_a * c.b + opa_b * buf[ri + 2]) \div fix15_one)]

\* the loop bodies run in mask order, each on the buffer the previous left
RECURSIVE draw_dab_pixels(_, _, _, _, _, _)
draw_dab_pixels(op, walk, k, buf, c, opacity) ==
    IF k > Len(walk) THEN buf
    ELSE LET ri == walk[k][1]
             m  == walk[k][2]
             nb == CASE op = "Normal" -> Normal_pixel(buf, ri, m, c, opacity)
                     [] op = "Normal_and_Eraser" ->
                            Normal_and_Eraser_pixel(buf, ri, m, c, opacity)
                     [] op = "LockAlpha" -> LockAlpha_pixel(buf, ri, m, c, opacity)
         IN  draw_dab_pixels(op, walk, k + 1, nb, c, opacity)

draw_dab_pixels_BlendMode_Normal(mask, buf, color_r, color_g, color_b, opacity) ==
    draw_dab_pixels("Normal", MaskWalk(mask, 0, 0), 1, buf,
                    [r |-> color_r, g |-> color_g, b |-> color_b, a |-> fix15_one],
                    opacity)

draw_dab_pixels_BlendMode_Normal_and_Eraser(mask, buf, color_r, color_g, color_b, color_a, opacity) ==
    draw_dab_pixels("Normal_and_Eraser", MaskWalk(mask, 0, 0), 1, buf,
                    [r |-> color_r, g |-> color_g, b |-> color_b, a |-> color_a],
                    opacity)

draw_dab_pixels_BlendMode_LockAlpha(mask, buf, color_r, color_g, color_b, opacity) ==
    draw_dab_pixels("LockAlpha", MaskWalk(mask, 0, 0), 1, buf,
                    [r |-> color_r, g |-> color_g, b |-> color_b, a |-> fix15_one],
                    opacity)

(***************************************************************************)
(* Inputs of the dab functions                                             *)
(***************************************************************************)
DabElems == 0 .. (4 * DabPixels - 1)

\* working-encoding pixels with R,G,B <= A <= 1.0
PixelSamples ==
    << <<0, 0, 0, 0>>,
       <<32768, 32768, 32768, 32768>>,
       <<1, 0, 1, 1>>,
       <<19661, 0, 9830, 19661>>,
       <<0, 32767, 16384, 32767>>,
       <<12345, 6789, 16384, 16384>> >>

\* the tile whose pixel k is sample k of PixelSamples, repeated
PatternTile ==
    [i \in DabElems |->
        PixelSamples[((i \div 4) % Len(PixelSamples)) + 1][(i % 4) + 1]]

Run10 == <<32768, 32768, 32768, 32768, 32768, 32768, 32768, 32768, 32768, 32768>>

\* mask values are nonzero inside a run; a zero ends the run and is followed
\* by the skip; a zero skip ends the mask
Masks ==
    { Run10 \o <<0, 54, 0, 0>>,
      <<32768, 0, 4, 16384, 0, 0>>,
      <<0, 8, 1, 32767, 0, 12, 3, 20000, 8192, 0, 0>>,
      <<0, 0>> }

Colors ==
    { [r |-> 32768, g |-> 32768, b |-> 32768],
      [r |-> 32768, g |-> 1, b |-> 16384] }

ColorAlphas == {0, 19661, 32768}
Opacities == {16384, 32768}

NoDab == [op |-> "none", mask |-> << >>, r |-> 0, g |-> 0, b |-> 0, a |-> 0,
          opacity |-> 0]

\* the caller hands over a mask that stays inside the buffer
MaskFits(mask) == \A k \in 1 .. Len(MaskWalk(mask, 0, 0)) :
                      MaskWalk(mask, 0, 0)[k][1] + 3 <= 4 * DabPixels - 1

(***************************************************************************)
(* Brush dab specification                                                 *)
(***************************************************************************)
IdleDab == rgba = << >> /\ dab = NoDab
IdleMip == mip_src = << >> /\ mip_dst = << >> /\ mip = [op |-> "none", dst_x |-> 0, dst_y |-> 0]

IdleFlat == flat_dst = << >> /\ flat_bg = << >>
            /\ flat = [op |-> "none", prior |-> "none", before |-> << >>]

IdleStroke == stroke_a = << >> /\ stroke_b = << >> /\ stroke_res = << >>
              /\ stroke = [op |-> "none"]
IdleConv == tile8 = << >> /\ tile16 = << >> /\ dithering_noise = << >>
            /\ have_noise = FALSE /\ conv = [op |-> "none"]
NoComp == [op |-> "none", dst_has_alpha |-> FALSE, src_opacity |-> <<0, 1>>]
IdleComp == comp_src = << >> /\ comp_dst = << >> /\ comp = NoComp
IdlePick == sums = << >>
IdleRace == ctx = << >>
IdleChanger == cc = << >> /\ picked = << >>

InitDab ==
    /\ rgba = PatternTile
    /\ dab = NoDab
    /\ calls = 0
    /\ IdleMip /\ IdleFlat /\ IdleStroke /\ IdleConv /\ IdleComp /\ IdlePick /\ IdleRace /\ IdleChanger

DabNormal ==
    /\ calls < MaxDabs
    /\ \E mask \in Masks, c \in Colors, opacity \in Opacities :
          /\ MaskFits(mask)
          /\ rgba' = draw_dab_pixels_BlendMode_Normal(
                         mask, rgba, c.r, c.g, c.b, opacity)
          /\ dab' = [op |-> "Normal", mask |-> mask, r |-> c.r, g |-> c.g,
                     b |-> c.b, a |-> fix15_one, opacity |-> opacity]
    /\ calls' = calls + 1
    /\ UNCHANGED notDab

DabNormalAndEraser ==
    /\ calls < MaxDabs
    /\ \E mask \in Masks, c \in Colors, color_a \in ColorAlphas,
          opacity \in Opacities :
          /\ MaskFits(mask)
          /\ rgba' = draw_dab_pixels_BlendMode_Normal_and_Eraser(
                         mask, rgba, c.r, c.g, c.b, color_a, opacity)
          /\ dab' = [op |-> "Normal_and_Eraser", mask |-> mask, r |-> c.r,
                     g |-> c.g, b |-> c.b, a |-> color_a, opacity |-> opacity]
    /\ calls' = calls + 1
    /\ UNCHANGED notDab

DabLockAlpha ==
    /\ calls < MaxDabs
    /\ \E mask \in Masks, c \in Colors, opacity \in Opacities :
          /\ MaskFits(mask)
          /\ rgba' = draw_dab_pixels_BlendMode_LockAlpha(
                         mask, rgba, c.r, c.g, c.b, opacity)
          /\ dab' = [op |-> "LockAlpha", mask |-> mask, r |-> c.r, g |-> c.g,
                     b |-> c.b, a |-> fix15_one, opacity |-> opacity]
    /\ calls' = calls + 1
    /\ UNCHANGED notDab

NextDab == DabNormal \/ DabNormalAndEraser \/ DabLockAlpha

SpecDab == InitDab /\ [][NextDab]_vars

(***************************************************************************)
(* Mipmap downscaler (tile_downscale_rgba16)                               *)
(***************************************************************************)
TileElems == 0 .. (4 * TILE_SIZE * TILE_SIZE - 1)
TilePixelIdx == 0 .. (TILE_SIZE * TILE_SIZE - 1)

\* src is a TILE_SIZE x TILE_SIZE tile, dst a C-contiguous array of the same
\* shape; the half-size image is written at pixel offset (dst_x, dst_y).
\* Each of the four source elements is divided by 4 before the sum.
tile_downscale_rgba16(src, dst, dst_x, dst_y) ==
    [i \in TileElems |->
        LET row == i \div (4 * TILE_SIZE)
            col == (i % (4 * TILE_SIZE)) \div 4
            ch  == i % 4
            y   == row - dst_y
            x   == col - dst_x
            sp  == (2 * y) * (4 * TILE_SIZE) + 8 * x + ch
        IN  IF y \in 0 .. (TILE_SIZE \div 2 - 1) /\ x \in 0 .. (TILE_SIZE \div 2 - 1)
            THEN U16(src[sp] \div 4 + src[sp + 4] \div 4
                     + src[sp + 4 * TILE_SIZE] \div 4
                     + src[sp + 4 * TILE_SIZE + 4] \div 4)
            ELSE dst[i]]

UniformTile(c) == [i \in TileElems |-> c[(i % 4) + 1]]

\* a tile that is not uniform: pixel k takes sample k of PixelSamples
SampleTile(shift) ==
    [i \in TileElems |->
        PixelSamples[((i \div 4 + shift) % Len(PixelSamples)) + 1][(i % 4) + 1]]

MipColors ==
    { <<0, 0, 0, 0>>, <<1, 1, 1, 1>>, <<3, 3, 3, 3>>, <<4, 4, 4, 4>>,
      <<5, 2, 0, 7>>, <<16384, 8191, 0, 32766>>, <<32767, 32767, 32767, 32767>>,
      <<32768, 32768, 32768, 32768>>, <<12, 16384, 32764, 32768>> }

InitMip ==
    /\ \/ \E c \in MipColors : mip_src = UniformTile(c)
       \/ \E shift \in 0 .. 2 : mip_src = SampleTile(shift)
    /\ mip_dst = UniformTile(<<0, 0, 0, 0>>)
    /\ mip = [op |-> "none", dst_x |-> 0, dst_y |-> 0]
    /\ calls = 0
    /\ IdleDab /\ IdleFlat /\ IdleStroke /\ IdleConv /\ IdleComp /\ IdlePick /\ IdleRace /\ IdleChanger

\* the four quadrants of the destination tile
Downscale ==
    /\ calls < MaxCalls
    /\ \E dst_x \in {0, TILE_SIZE \div 2}, dst_y \in {0, TILE_SIZE \div 2} :
          /\ mip_dst' = tile_downscale_rgba16(mip_src, mip_dst, dst_x, dst_y)
          /\ mip' = [op |-> "downscale", dst_x |-> dst_x, dst_y |-> dst_y]
    /\ calls' = calls + 1
    /\ UNCHANGED <<mip_src, notMip>>

NextMip == Downscale

SpecMip == InitMip /\ [][NextMip]_vars

\* C4: downscaling a source tile in which every pixel has the same colour C
\* writes exactly C into every pixel of the half-size destination quadrant.
C4_UniformStaysUniform ==
    [][mip'.op = "downscale" /\ calls' = calls + 1
          /\ (\E c \in MipColors : mip_src = UniformTile(c))
          => \A i \in TileElems :
                LET y == i \div (4 * TILE_SIZE) - mip'.dst_y
                    x == (i % (4 * TILE_SIZE)) \div 4 - mip'.dst_x
                IN  y \in 0 .. (TILE_SIZE \div 2 - 1) /\ x \in 0 .. (TILE_SIZE \div 2 - 1)
                      => mip_dst'[i] = mip_src[i % 4]]_vars

(***************************************************************************)
(* Flatten and unflatten (tile_rgba2flat, tile_flat2rgba)                  *)
(***************************************************************************)
Pixel(tile, k) == <<tile[4 * k], tile[4 * k + 1], tile[4 * k + 2], tile[4 * k + 3]>>

\* loop body of tile_rgba2flat: dst.color = dst OVER bg.color, alpha is kept
rgba2flat_pixel(p, bg) ==
    LET one_minus_top_alpha == U32(fix15_one - p[4])
    IN  << U16(p[1] + U32(one_minus_top_alpha * bg[1]) \div fix15_one),
           U16(p[2] + U32(one_minus_top_alpha * bg[2]) \div fix15_one),
           U16(p[3] + U32(one_minus_top_alpha * bg[3]) \div fix15_one),
           p[4] >>

tile_rgba2flat(dst, bg) ==
    [i \in TileElems |-> rgba2flat_pixel(Pixel(dst, i \div 4), Pixel(bg, i \div 4))[(i % 4) + 1]]

\* one round of the loop that computes final_alpha (a uint16_t) for channel
\* values d of dst and b of bg, without the MAX against the alpha of dst
flat2rgba_alpha_step_NoOldAlpha(final_alpha, d, b, a) ==
    LET color_change == d - b
    IN  IF color_change > 0
        THEN U16(MAX(final_alpha, (color_change * fix15_one) \div (fix15_one - b)))
        ELSE IF color_change < 0
             THEN U16(MAX(final_alpha, ((-color_change) * fix15_one) \div b))
             ELSE final_alpha

\* one round of the loop that computes final_alpha (a uint16_t) for channel
\* values d of dst and b of bg; a is the alpha of dst
flat2rgba_alpha_step(final_alpha, d, b, a) ==
    LET color_change == d - b
        fa == IF color_change > 0
              THEN U16(MAX(final_alpha, (color_change * fix15_one) \div (fix15_one - b)))
              ELSE IF color_change < 0
                   THEN U16(MAX(final_alpha, ((-color_change) * fix15_one) \div b))
                   ELSE final_alpha
    IN  MAX(fa, a)

\* 1. calculate final dst.alpha
flat2rgba_final_alpha(p, bg) ==
    flat2rgba_alpha_step(
        flat2rgba_alpha_step(
            flat2rgba_alpha_step(0, p[1], bg[1], p[4]),
            p[2], bg[2], p[4]),
        p[3], bg[3], p[4])

\* the colour solved without premultiplying the background by final_alpha
flat2rgba_color_NotPremultiplied(d, b, final_alpha) ==
    CLAMP(b + (d - b), 0, final_alpha)

\* the colour stored without the clamp to 0 .. final_alpha
flat2rgba_color_NoClamp(d, b, final_alpha) ==
    LET color_change == d - b
        res == U32(b * final_alpha) \div fix15_one + color_change
    IN  U16(res)

\* 2. calculate dst.color: one channel, final_alpha > 0
flat2rgba_color(d, b, final_alpha) ==
    LET color_change == d - b
        res == U32(b * final_alpha) \div fix15_one + color_change
    IN  CLAMP(res, 0, final_alpha)

\* loop body of tile_flat2rgba
flat2rgba_pixel(p, bg) ==
    LET final_alpha == flat2rgba_final_alpha(p, bg)
    IN  IF final_alpha > 0
        THEN << flat2rgba_color(p[1], bg[1], final_alpha),
                flat2rgba_color(p[2], bg[2], final_alpha),
                flat2rgba_color(p[3], bg[3], final_alpha),
                final_alpha >>
        ELSE <<0, 0, 0, final_alpha>>

tile_flat2rgba(dst, bg) ==
    [i \in TileElems |-> flat2rgba_pixel(Pixel(dst, i \div 4), Pixel(bg, i \div 4))[(i % 4) + 1]]

\* premultiplied pixels (R,G,B <= A <= 1.0) of a translucent layer
LayerSamples ==
    << <<1, 1, 0, 1>>,
       <<0, 0, 0, 0>>,
       <<32768, 32768, 32768, 32768>>,
       <<19661, 0, 9830, 19661>>,
       <<1, 1, 1, 1>>,
       <<12345, 6789, 16384, 16384>>,
       <<0, 32767, 16384, 32767>>,
       <<2004, 1000, 0, 2004>> >>

\* flat colours with whatever alpha the buffer held before
FlatSamples ==
    << <<17454, 14992, 6699, 2004>>,
       <<32768, 0, 16384, 0>>,
       <<0, 0, 0, 32768>>,
       <<1, 32767, 2, 5>>,
       <<16383, 32768, 0, 1>>,
       <<32768, 32768, 32768, 16384>>,
       <<0, 25546, 0, 0>>,
       <<20000, 20000, 20000, 20000>> >>

\* opaque backgrounds; the alpha of bg is never read
BgSamples ==
    << <<16383, 32768, 1, 32768>>,
       <<0, 25546, 0, 32768>>,
       <<32768, 32768, 32768, 32768>>,
       <<0, 0, 0, 32768>>,
       <<1, 32767, 16384, 32768>>,
       <<20000, 3, 32765, 32768>> >>

\* the tile whose pixel k is sample (k + shift) of samples, cyclically
TileOf(samples, shift) ==
    [i \in TileElems |->
        samples[((i \div 4 + shift) % Len(samples)) + 1][(i % 4) + 1]]

Premultiplied(tile) ==
    \A k \in TilePixelIdx :
        /\ tile[4 * k + 3] <= fix15_one
        /\ tile[4 * k] <= tile[4 * k + 3]
        /\ tile[4 * k + 1] <= tile[4 * k + 3]
        /\ tile[4 * k + 2] <= tile[4 * k + 3]

InitFlat ==
    /\ \E shift \in 0 .. (Len(LayerSamples) - 1) :
          \/ flat_dst = TileOf(LayerSamples, shift)
          \/ flat_dst = TileOf(FlatSamples, shift)
    /\ \E shift \in 0 .. 1 : flat_bg = TileOf(BgSamples, shift)
    /\ flat = [op |-> "none", prior |-> "none", before |-> flat_dst]
    /\ calls = 0
    /\ IdleDab /\ IdleMip /\ IdleStroke /\ IdleConv /\ IdleComp /\ IdlePick /\ IdleRace /\ IdleChanger

\* the caller flattens a premultiplied layer
Flatten ==
    /\ calls < MaxCalls
    /\ Premultiplied(flat_dst)
    /\ flat_dst' = tile_rgba2flat(flat_dst, flat_bg)
    /\ flat' = [op |-> "rgba2flat", prior |-> flat.op, before |-> flat_dst]
    /\ calls' = calls + 1
    /\ UNCHANGED <<flat_bg, notFlat>>

Unflatten ==
    /\ calls < MaxCalls
    /\ flat_dst' = tile_flat2rgba(flat_dst, flat_bg)
    /\ flat' = [op |-> "flat2rgba", prior |-> flat.op, before |-> flat_dst]
    /\ calls' = calls + 1
    /\ UNCHANGED <<flat_bg, notFlat>>

NextFlat == Flatten \/ Unflatten

SpecFlat == InitFlat /\ [][NextFlat]_vars

ColorElems == {i \in TileElems : i % 4 # 3}

\* C6: for premultiplied pixels, flatten followed by unflatten over the same
\* background yields R,G,B within 2 units of the original premultiplied
\* values.
C6_FlattenUnflattenRecovers ==
    [][calls' = calls + 1 /\ flat.op = "rgba2flat" /\ flat'.op = "flat2rgba"
          => \A i \in ColorElems : abs(flat_dst'[i] - flat.before[i]) <= 2]_vars

C8_UnflattenFlattenReproduces ==
    [][calls' = calls + 1 /\ flat.op = "flat2rgba" /\ flat'.op = "rgba2flat"
          => \A i \in ColorElems : abs(flat_dst'[i] - flat.before[i]) <= 2]_vars

\* a flatten has followed an unflatten and has changed the colours
C8_Witness ==
    /\ flat.op = "rgba2flat"
    /\ flat.prior = "flat2rgba"
    /\ calls = 2
    /\ \E i \in ColorElems : flat_dst[i] # flat.before[i]

\* C20: for dst and bg channels in 0 .. 2^15, unflatten divides by a nonzero
\* value whenever it divides, computes a final alpha of at most 2^15 and
\* writes R,G,B <= A, with R = G = B = 0 where the final alpha is 0.
C20_UnflattenStaysInRange ==
    [][calls' = calls + 1 /\ flat'.op = "flat2rgba"
          /\ (\A i \in TileElems : flat_dst[i] <= fix15_one /\ flat_bg[i] <= fix15_one)
          => \A k \in TilePixelIdx :
                /\ \A ch \in 0 .. 2 :
                      /\ flat_dst[4 * k + ch] > flat_bg[4 * k + ch]
                            => fix15_one - flat_bg[4 * k + ch] # 0
                      /\ flat_dst[4 * k + ch] < flat_bg[4 * k + ch]
                            => flat_bg[4 * k + ch] # 0
                /\ flat2rgba_final_alpha(Pixel(flat_dst, k), Pixel(flat_bg, k)) <= fix15_one
                /\ flat_dst'[4 * k + 3] <= fix15_one
                /\ \A ch \in 0 .. 2 : flat_dst'[4 * k + ch] <= flat_dst'[4 * k + 3]
                /\ flat_dst'[4 * k + 3] = 0
                      => \A ch \in 0 .. 2 : flat_dst'[4 * k + ch] = 0]_vars

\* an unflatten of flat colours has left a pixel of alpha 0, has clamped a
\* channel at 0 in another and has met a channel of 1.0 over a background
\* of 1.0
C20_Witness ==
    /\ flat.op = "flat2rgba"
    /\ calls = 1
    /\ \E k \in TilePixelIdx : flat_dst[4 * k + 3] = 0
    /\ \E k \in TilePixelIdx, ch \in 0 .. 2 :
          /\ flat_dst[4 * k + 3] > 0
          /\ flat_dst[4 * k + ch] = 0
          /\ (flat_bg[4 * k + ch] * flat_dst[4 * k + 3]) \div fix15_one
                 + flat.before[4 * k + ch] - flat_bg[4 * k + ch] < 0
    /\ \E k \in TilePixelIdx, ch \in 0 .. 2 :
          flat.before[4 * k + ch] = fix15_one /\ flat_bg[4 * k + ch] = fix15_one

(***************************************************************************)
(* Perceptual stroke map (tile_perceptual_change_strokemap)                *)
(***************************************************************************)

\* the sum over R,G,B of the differences of the premultiplied channels
strokemap_color_change_Premultiplied(a, b) ==
    abs(b[1] - a[1]) + abs(b[2] - a[2]) + abs(b[3] - a[3])

\* the sum over R,G,B of |b.color*a.alpha - a.color*b.alpha|
strokemap_color_change(a, b) ==
    LET d(i) == LET a_col == U32(a[i] * b[4]) \div fix15_one
                    b_col == U32(b[i] * a[4]) \div fix15_one
                IN  abs(b_col - a_col)
    IN  d(1) + d(2) + d(3)

\* the colour test with >= in place of >
is_perceptual_color_change_OrEqual(color_change, alpha_old, alpha_new) ==
    color_change >= MAX(alpha_old, alpha_new) \div 16

is_perceptual_color_change(color_change, alpha_old, alpha_new) ==
    color_change > MAX(alpha_old, alpha_new) \div 16

\* loop body of tile_perceptual_change_strokemap for pixel a of the old and
\* pixel b of the new snapshot: the value stored in res
strokemap_pixel(a, b) ==
    LET color_change == strokemap_color_change(a, b)
        alpha_old == a[4]
        alpha_new == b[4]
        alpha_diff == alpha_new - alpha_old
        is_perceptual_alpha_increase == alpha_diff > fix15_one \div 4
        is_big_relative_alpha_increase ==
            alpha_diff > fix15_one \div 64 /\ alpha_diff > alpha_old \div 2
    IN  IF \/ is_perceptual_alpha_increase
           \/ is_big_relative_alpha_increase
           \/ is_perceptual_color_change(color_change, alpha_old, alpha_new)
        THEN 1 ELSE 0

tile_perceptual_change_strokemap(a, b) ==
    [k \in TilePixelIdx |-> strokemap_pixel(Pixel(a, k), Pixel(b, k))]

\* the output array holds anything before the call
InitStroke ==
    /\ \E shift \in 0 .. (Len(LayerSamples) - 1) :
          stroke_a = TileOf(LayerSamples, shift)
    /\ \E shift \in 0 .. (Len(LayerSamples) - 1) :
          stroke_b = TileOf(LayerSamples, shift)
    /\ \E v \in {0, 1} : stroke_res = [k \in TilePixelIdx |-> v]
    /\ stroke = [op |-> "none"]
    /\ calls = 0
    /\ IdleDab /\ IdleMip /\ IdleFlat /\ IdleConv /\ IdleComp /\ IdlePick /\ IdleRace /\ IdleChanger

Strokemap ==
    /\ calls < MaxCalls
    /\ stroke_res' = tile_perceptual_change_strokemap(stroke_a, stroke_b)
    /\ stroke' = [op |-> "strokemap"]
    /\ calls' = calls + 1
    /\ UNCHANGED <<stroke_a, stroke_b, notStroke>>

NextStroke == Strokemap

SpecStroke == InitStroke /\ [][NextStroke]_vars

\* C10: the stroke map of two identical snapshots is 0 at every pixel.
C10_IdenticalSnapshotsGiveZero ==
    stroke.op = "strokemap" /\ stroke_a = stroke_b
        => \A k \in TilePixelIdx : stroke_res[k] = 0

\* the map of two identical snapshots with pixels of alpha 1, of full alpha
\* and of alpha 0 has been computed
C10_Witness ==
    /\ stroke.op = "strokemap"
    /\ stroke_a = stroke_b
    /\ \E k \in TilePixelIdx : stroke_a[4 * k + 3] = 1
    /\ \E k \in TilePixelIdx : stroke_a[4 * k + 3] = fix15_one
    /\ \E k \in TilePixelIdx : stroke_a[4 * k + 3] = 0
    /\ \A k \in TilePixelIdx : stroke_res[k] = 0

(***************************************************************************)
(* Bit depth converters and the dithering noise                            *)
(***************************************************************************)
dithering_noise_size == TILE_SIZE * TILE_SIZE * 2

\* rand(): call number i of one of the sequences the generator may give
RandKinds == {"low", "high", "mixed"}
rand(kind, i) ==
    CASE kind = "low" -> 0
      [] kind = "high" -> 2147483647
      [] kind = "mixed" -> (i * 7919 + 12345) % 2147483647

\* a table entry over the full range of 15 bits
noise_value_FullRange(r) == r % fix15_one

\* a table entry scaled to 240/256 without the offset of 8/256
noise_value_NoOffset(r) == ((r % fix15_one) * 240) \div 256

\* the table entry made from the random number r
noise_value(r) == ((r % fix15_one) * 240) \div 256 + (fix15_one * 8) \div 256

\* the table made anew on every call, whatever have_noise says
precalculate_dithering_noise_if_required_Always(kind) ==
    [i \in 0 .. (dithering_noise_size - 1) |-> noise_value(rand(kind, i))]

\* the table precalculate_dithering_noise_if_required leaves
precalculate_dithering_noise_if_required(kind) ==
    IF ~have_noise
    THEN [i \in 0 .. (dithering_noise_size - 1) |-> noise_value(rand(kind, i))]
    ELSE dithering_noise

U8(x) == x % 256

\* the loop body with the colour of a fully transparent pixel set to 1.0
rgba16_to_rgba8_pixel_TransparentWhite(p, add_r, add_a) ==
    LET a == p[4]
        unpre(c) == IF a # 0 THEN (c * fix15_one + a \div 2) \div a ELSE fix15_one
        r == unpre(p[1])
        g == unpre(p[2])
        b == unpre(p[3])
    IN  << U8((r * 255 + add_r) \div fix15_one),
           U8((g * 255 + add_r) \div fix15_one),
           U8((b * 255 + add_r) \div fix15_one),
           U8((a * 255 + add_a) \div fix15_one) >>

\* loop body of tile_convert_rgba16_to_rgba8 with its two noise values
rgba16_to_rgba8_pixel(p, add_r, add_a) ==
    LET a == p[4]
        unpre(c) == IF a # 0 THEN (c * fix15_one + a \div 2) \div a ELSE 0
        r == unpre(p[1])
        g == unpre(p[2])
        b == unpre(p[3])
    IN  << U8((r * 255 + add_r) \div fix15_one),
           U8((g * 255 + add_r) \div fix15_one),
           U8((b * 255 + add_r) \div fix15_one),
           U8((a * 255 + add_a) \div fix15_one) >>

\* pixel k takes noise entries 2k and 2k+1
tile_convert_rgba16_to_rgba8(src, noise) ==
    [i \in TileElems |->
        LET k == i \div 4
        IN  rgba16_to_rgba8_pixel(Pixel(src, k), noise[2 * k], noise[2 * k + 1])[(i % 4) + 1]]

\* loop body of tile_convert_rgbu16_to_rgbu8
rgbu16_to_rgbu8_pixel(p, add) ==
    << U8((p[1] * 255 + add) \div fix15_one),
       U8((p[2] * 255 + add) \div fix15_one),
       U8((p[3] * 255 + add) \div fix15_one),
       255 >>

\* pixel k takes noise entry k
tile_convert_rgbu16_to_rgbu8(src, noise) ==
    [i \in TileElems |->
        LET k == i \div 4
        IN  rgbu16_to_rgbu8_pixel(Pixel(src, k), noise[k])[(i % 4) + 1]]

\* loop body of tile_convert_rgba8_to_rgba16
rgba8_to_rgba16_pixel(p) ==
    LET fix(c) == (c * fix15_one + 255 \div 2) \div 255
        r == fix(p[1])
        g == fix(p[2])
        b == fix(p[3])
        a == fix(p[4])
    IN  << U16((r * a + fix15_one \div 2) \div fix15_one),
           U16((g * a + fix15_one \div 2) \div fix15_one),
           U16((b * a + fix15_one \div 2) \div fix15_one),
           U16(a) >>

tile_convert_rgba8_to_rgba16(src) ==
    [i \in TileElems |-> rgba8_to_rgba16_pixel(Pixel(src, i \div 4))[(i % 4) + 1]]

\* 8-bit alphas of the initial tile
Alphas8 == 0 .. 255

\* colour values one tile holds, and the tiles that hold all of 0 .. 255
ColorsPerTile == 3 * TILE_SIZE * TILE_SIZE
ColorTiles == 0 .. ((255 + ColorsPerTile) \div ColorsPerTile - 1)

\* the 8-bit tile of alpha a whose colour elements count up from
\* ColorsPerTile * n
Tile8(a, n) ==
    [i \in TileElems |->
        IF i % 4 = 3 THEN a
        ELSE (ColorsPerTile * n + 3 * (i \div 4) + (i % 4)) % 256]

InitConv ==
    /\ \E a \in Alphas8, n \in ColorTiles : tile8 = Tile8(a, n)
    /\ tile16 = TileOf(LayerSamples, 0)
    /\ dithering_noise = [i \in 0 .. (dithering_noise_size - 1) |-> 0]
    /\ have_noise = FALSE
    /\ conv = [op |-> "none"]
    /\ calls = 0
    /\ IdleDab /\ IdleMip /\ IdleFlat /\ IdleStroke /\ IdleComp /\ IdlePick /\ IdleRace /\ IdleChanger

\* tile_convert_rgba8_to_rgba16(tile8, tile16)
Convert_rgba8_to_rgba16 ==
    /\ calls < MaxConvCalls
    /\ tile16' = tile_convert_rgba8_to_rgba16(tile8)
    /\ conv' = [op |-> "rgba8_to_rgba16"]
    /\ calls' = calls + 1
    /\ UNCHANGED <<tile8, dithering_noise, have_noise, notConv>>

\* tile_convert_rgba16_to_rgba8(tile16, tile8)
Convert_rgba16_to_rgba8 ==
    /\ calls < MaxConvCalls
    /\ Premultiplied(tile16)
    /\ \E kind \in RandKinds :
          /\ dithering_noise' = precalculate_dithering_noise_if_required(kind)
          /\ have_noise' = TRUE
          /\ tile8' = tile_convert_rgba16_to_rgba8(tile16, dithering_noise')
    /\ conv' = [op |-> "rgba16_to_rgba8"]
    /\ calls' = calls + 1
    /\ UNCHANGED <<tile16, notConv>>

\* tile_convert_rgbu16_to_rgbu8(tile16, tile8)
Convert_rgbu16_to_rgbu8 ==
    /\ calls < MaxConvCalls
    /\ \E kind \in RandKinds :
          /\ dithering_noise' = precalculate_dithering_noise_if_required(kind)
          /\ have_noise' = TRUE
          /\ tile8' = tile_convert_rgbu16_to_rgbu8(tile16, dithering_noise')
    /\ conv' = [op |-> "rgbu16_to_rgbu8"]
    /\ calls' = calls + 1
    /\ UNCHANGED <<tile16, notConv>>

NextConv == Convert_rgba8_to_rgba16 \/ Convert_rgba16_to_rgba8
            \/ Convert_rgbu16_to_rgbu8

SpecConv == InitConv /\ [][NextConv]_vars

\* C5: converting an 8-bit pixel of alpha 128 .. 255 to 16 bits and back
\* returns its R,G,B,A bytes, whatever the noise.
C5_RoundTrip8Bit ==
    [][calls' = calls + 1 /\ conv.op = "rgba8_to_rgba16"
          /\ conv'.op = "rgba16_to_rgba8"
          => \A k \in TilePixelIdx :
                tile8[4 * k + 3] >= 128 => Pixel(tile8', k) = Pixel(tile8, k)]_vars

\* a tile of alpha 128 has gone to 16 bits and back through a table of the
\* smallest noise values
C5_Witness ==
    /\ conv.op = "rgba16_to_rgba8"
    /\ calls = 2
    /\ have_noise
    /\ dithering_noise[0] = 1024
    /\ tile8 = Tile8(128, 1)
    /\ tile16 = tile_convert_rgba8_to_rgba16(tile8)

\* C14: tile_convert_rgba16_to_rgba8 writes a pixel of alpha 0 as four zero
\* bytes, whatever noise the table holds, and does not divide by its alpha.
C14_TransparentGivesZero ==
    [][calls' = calls + 1 /\ conv'.op = "rgba16_to_rgba8"
          => \A k \in TilePixelIdx :
                tile16[4 * k + 3] = 0 => Pixel(tile8', k) = <<0, 0, 0, 0>>]_vars

\* a tile with a fully transparent pixel has been converted through a table
\* of the largest noise values
C14_Witness ==
    /\ conv.op = "rgba16_to_rgba8"
    /\ calls = 1
    /\ \A i \in 0 .. (dithering_noise_size - 1) : dithering_noise[i] = 31743
    /\ \E k \in TilePixelIdx :
          /\ tile16[4 * k + 3] = 0
          /\ Pixel(tile8, k) = <<0, 0, 0, 0>>
    /\ \E k \in TilePixelIdx : tile8[4 * k + 3] = 255

\* C16: in a sequence of conversion calls the table is made during the first
\* call that needs it, every entry then lies in [0.03, 0.97] * 2^15, and no
\* later call changes an entry; a call reads the entries from index 0 on.
C16_NoiseMadeOnce ==
    [][calls' = calls + 1
          => /\ have_noise => dithering_noise' = dithering_noise /\ have_noise'
             /\ conv'.op = "rgba8_to_rgba16" =>
                    dithering_noise' = dithering_noise /\ have_noise' = have_noise
             /\ conv'.op \in {"rgba16_to_rgba8", "rgbu16_to_rgbu8"} =>
                    /\ have_noise'
                    /\ \A i \in 0 .. (dithering_noise_size - 1) :
                          /\ 100 * dithering_noise'[i] >= 3 * fix15_one
                          /\ 100 * dithering_noise'[i] <= 97 * fix15_one
             /\ conv'.op = "rgba16_to_rgba8" =>
                    tile8' = tile_convert_rgba16_to_rgba8(tile16, dithering_noise')
             /\ conv'.op = "rgbu16_to_rgbu8" =>
                    tile8' = tile_convert_rgbu16_to_rgbu8(tile16, dithering_noise')]_vars

\* two conversions to 8 bits in a row: the second found the table made
C16_Witness ==
    /\ calls = 2
    /\ conv.op = "rgbu16_to_rgbu8"
    /\ have_noise
    /\ tile16 = TileOf(LayerSamples, 0)
    /\ dithering_noise[0] = 1024
    /\ dithering_noise[1] = 1024
    /\ tile8 = tile_convert_rgbu16_to_rgbu8(tile16, dithering_noise)

\* C18: converting an 8-bit pixel of any alpha 0 .. 255 to 16 bits and back
\* returns its alpha byte, whatever noise the table holds.
C18_AlphaRoundTrip ==
    [][calls' = calls + 1 /\ conv.op = "rgba8_to_rgba16"
          /\ conv'.op = "rgba16_to_rgba8"
          => \A k \in TilePixelIdx : tile8'[4 * k + 3] = tile8[4 * k + 3]]_vars

\* a tile of alpha 2 has gone to 16 bits and back through a table of the
\* smallest noise values, and its colours have not all come back
C18_Witness ==
    /\ conv.op = "rgba16_to_rgba8"
    /\ calls = 2
    /\ dithering_noise[1] = 1024
    /\ \A k \in TilePixelIdx : tile8[4 * k + 3] = 2
    /\ tile16 = tile_convert_rgba8_to_rgba16(Tile8(2, 1))
    /\ tile8 # Tile8(2, 1)

(***************************************************************************)
(* Tile compositing (tile_composite_data and its 16 entry points)          *)
(*                                                                         *)
(* fix15.hpp, blendmodes.hpp and compositing.hpp are not among the sources *)
(* at hand: the fix15 helpers, the blend functions and composite_src_over  *)
(* below follow the design document (sections 4.1 and 4.2).                *)
(***************************************************************************)
fix15_mul(a, b) == (a * b) \div fix15_one
fix15_div(a, b) == (a * fix15_one) \div b
fix15_short_clamp(n) == IF n > fix15_one THEN fix15_one ELSE n

\* signed division truncating towards zero, b > 0
sdiv(a, b) == IF a < 0 THEN -((-a) \div b) ELSE a \div b

MIN3(c) == MIN(c[1], MIN(c[2], c[3]))
MAX3(c) == MAX(c[1], MAX(c[2], c[3]))

\* largest r in lo .. hi with r * r <= n
RECURSIVE isqrt(_, _, _)
isqrt(n, lo, hi) ==
    IF lo >= hi THEN lo
    ELSE LET mid == (lo + hi + 1) \div 2
         IN  IF mid * mid <= n THEN isqrt(n, mid, hi) ELSE isqrt(n, lo, mid - 1)

fix15_sqrt(x) == isqrt(x * fix15_one, 0, fix15_one)

blend_screen(Cs, Cb) == Cs + Cb - fix15_mul(Cs, Cb)

blend_hard_light(Cs, Cb) ==
    IF 2 * Cs <= fix15_one
    THEN fix15_mul(Cb, 2 * Cs)
    ELSE blend_screen(2 * Cs - fix15_one, Cb)

blend_soft_light(Cs, Cb) ==
    IF 2 * Cs <= fix15_one
    THEN Cb - fix15_mul(fix15_mul(fix15_one - 2 * Cs, Cb), fix15_one - Cb)
    ELSE LET D == IF 4 * Cb <= fix15_one
                  THEN fix15_mul(16 * fix15_mul(Cb, Cb) - 12 * Cb + 4 * fix15_one, Cb)
                  ELSE fix15_sqrt(Cb)
         IN  Cb + sdiv((2 * Cs - fix15_one) * (D - Cb), fix15_one)

blend_color_dodge(Cs, Cb) ==
    IF Cs >= fix15_one THEN fix15_one
    ELSE fix15_short_clamp(fix15_div(Cb, fix15_one - Cs))

blend_color_burn(Cs, Cb) ==
    IF Cs = 0 THEN 0
    ELSE fix15_one - fix15_short_clamp(fix15_div(fix15_one - Cb, Cs))

\* a separable blend function on one un-premultiplied channel
blend_separable(mode, Cs, Cb) ==
    CASE mode = "normal" -> Cs
      [] mode = "multiply" -> fix15_mul(Cs, Cb)
      [] mode = "screen" -> blend_screen(Cs, Cb)
      [] mode = "overlay" -> blend_hard_light(Cb, Cs)
      [] mode = "hard_light" -> blend_hard_light(Cs, Cb)
      [] mode = "lighten" -> MAX(Cs, Cb)
      [] mode = "darken" -> MIN(Cs, Cb)
      [] mode = "soft_light" -> blend_soft_light(Cs, Cb)
      [] mode = "color_dodge" -> blend_color_dodge(Cs, Cb)
      [] mode = "color_burn" -> blend_color_burn(Cs, Cb)
      [] mode = "difference" -> abs(Cs - Cb)
      [] mode = "exclusion" -> Cs + Cb - 2 * fix15_mul(Cs, Cb)

\* luminosity, saturation and their setters on un-premultiplied R,G,B
blend_lum(c) == (9830 * c[1] + 19333 * c[2] + 3604 * c[3]) \div fix15_one
blend_sat(c) == MAX3(c) - MIN3(c)

blend_clip_color(c) ==
    LET l == blend_lum(c)
        n == MIN3(c)
        x == MAX3(c)
        lo(v) == IF n < 0 THEN l + sdiv((v - l) * l, l - n) ELSE v
        hi(v) == IF x > fix15_one THEN l + sdiv((v - l) * (fix15_one - l), x - l) ELSE v
    IN  << CLAMP(hi(lo(c[1])), 0, fix15_one),
           CLAMP(hi(lo(c[2])), 0, fix15_one),
           CLAMP(hi(lo(c[3])), 0, fix15_one) >>

blend_set_lum(c, l) ==
    LET d == l - blend_lum(c)
    IN  blend_clip_color(<<c[1] + d, c[2] + d, c[3] + d>>)

blend_set_sat(c, sat) ==
    LET n == MIN3(c)
        x == MAX3(c)
        f(v) == IF x > n THEN ((v - n) * sat) \div (x - n) ELSE 0
    IN  <<f(c[1]), f(c[2]), f(c[3])>>

SeparableModes ==
    {"normal", "multiply", "screen", "overlay", "hard_light", "lighten",
     "darken", "soft_light", "color_dodge", "color_burn", "difference",
     "exclusion"}

\* the blend function of a mode on un-premultiplied source and backdrop
blend(mode, Cs, Cb) ==
    CASE mode \in SeparableModes ->
            << blend_separable(mode, Cs[1], Cb[1]),
               blend_separable(mode, Cs[2], Cb[2]),
               blend_separable(mode, Cs[3], Cb[3]) >>
      [] mode = "hue" ->
            blend_set_lum(blend_set_sat(Cs, blend_sat(Cb)), blend_lum(Cb))
      [] mode = "saturation" ->
            blend_set_lum(blend_set_sat(Cb, blend_sat(Cs)), blend_lum(Cb))
      [] mode = "color" -> blend_set_lum(Cs, blend_lum(Cb))
      [] mode = "luminosity" -> blend_set_lum(Cb, blend_lum(Cs))

\* source-over of one pixel: s the source, d the destination pixel.  With
\* dst_has_alpha the alpha of d is updated, without it d is taken as opaque
\* and its alpha element is not written.
composite_src_over_pixel(mode, s, d, dst_has_alpha, opac) ==
    LET as == fix15_mul(s[4], opac)
        ab == IF dst_has_alpha THEN d[4] ELSE fix15_one
        un(c, a) == IF a = 0 THEN 0 ELSE fix15_short_clamp(fix15_div(c, a))
        Cs == <<un(s[1], s[4]), un(s[2], s[4]), un(s[3], s[4])>>
        Cb == <<un(d[1], ab), un(d[2], ab), un(d[3], ab)>>
        B  == blend(mode, Cs, Cb)
        co(i) == fix15_mul(as, fix15_mul(fix15_one - ab, Cs[i]) + fix15_mul(ab, B[i]))
                 + fix15_mul(fix15_one - as, d[i])
        ao == as + fix15_mul(fix15_one - as, ab)
    IN  IF as = 0 THEN d
        ELSE << U16(co(1)), U16(co(2)), U16(co(3)),
                IF dst_has_alpha THEN U16(ao) ELSE d[4] >>

\* BufferComp<..., B>::composite_src_over over the whole tile
composite_src_over(mode, src, dst, dst_has_alpha, opac) ==
    [i \in TileElems |->
        composite_src_over_pixel(mode, Pixel(src, i \div 4), Pixel(dst, i \div 4),
                                 dst_has_alpha, opac)[(i % 4) + 1]]

\* src_opacity is the float num/den, given as <<num, den>>; the product with
\* fix15_one is truncated when it becomes a fix15_t
float_to_fix15(src_opacity) == (src_opacity[1] * fix15_one) \div src_opacity[2]

\* the conversion with the product rounded to the nearest integer
tile_composite_data_Rounded(mode, src, dst, dst_has_alpha, src_opacity) ==
    LET opac == fix15_short_clamp(
                    (2 * src_opacity[1] * fix15_one + src_opacity[2])
                        \div (2 * src_opacity[2]))
    IN  IF opac = 0 THEN dst
        ELSE composite_src_over(mode, src, dst, dst_has_alpha, opac)

\* tile_composite_data<B>: the destination tile it leaves
tile_composite_data(mode, src, dst, dst_has_alpha, src_opacity) ==
    LET opac == fix15_short_clamp(float_to_fix15(src_opacity))
    IN  IF opac = 0 THEN dst
        ELSE composite_src_over(mode, src, dst, dst_has_alpha, opac)

\* the 16 entry points tile_composite_<mode>
BlendModes == SeparableModes \cup {"hue", "saturation", "color", "luminosity"}

\* opacities 0, 2^-16, 2^-15, 0.5, 1.0 and 1.5
SrcOpacities == {<<0, 1>>, <<1, 65536>>, <<1, 32768>>, <<1, 2>>, <<1, 1>>, <<3, 2>>}

InitComp ==
    /\ \E shift \in 0 .. 1 : comp_src = TileOf(LayerSamples, shift)
    /\ comp_dst = TileOf(LayerSamples, 3)
    /\ comp = NoComp
    /\ calls = 0
    /\ IdleDab /\ IdleMip /\ IdleFlat /\ IdleStroke /\ IdleConv /\ IdlePick /\ IdleRace /\ IdleChanger

\* tile_composite_<mode>(src, dst, dst_has_alpha, src_opacity)
Composite ==
    /\ calls < MaxCompCalls
    /\ Premultiplied(comp_dst)
    /\ \E mode \in BlendModes, dst_has_alpha \in BOOLEAN, src_opacity \in SrcOpacities :
          /\ comp_dst' = tile_composite_data(mode, comp_src, comp_dst,
                                             dst_has_alpha, src_opacity)
          /\ comp' = [op |-> mode, dst_has_alpha |-> dst_has_alpha,
                      src_opacity |-> src_opacity]
    /\ calls' = calls + 1
    /\ UNCHANGED <<comp_src, notComp>>

NextComp == Composite

SpecComp == InitComp /\ [][NextComp]_vars

\* C1: a composite call of any of the 16 blend modes, with or without
\* destination alpha, whose opacity converts to fixed-point 0 leaves every
\* channel of every destination pixel unchanged.
C1_ZeroOpacityNoOp ==
    [][calls' = calls + 1 /\ comp'.op \in BlendModes
          /\ comp'.src_opacity[1] * fix15_one < comp'.src_opacity[2]
          => comp_dst' = comp_dst]_vars

\* a hue composite with the positive opacity 2^-16 has returned
C1_Witness ==
    /\ calls = 1
    /\ comp.op = "hue"
    /\ comp.dst_has_alpha
    /\ comp.src_opacity = <<1, 65536>>
    /\ comp_dst = TileOf(LayerSamples, 3)

(***************************************************************************)
(* Properties of the brush dabs                                            *)
(***************************************************************************)
DabPixelIdx == 0 .. (DabPixels - 1)
PixelOf(buf, k) == <<buf[4 * k], buf[4 * k + 1], buf[4 * k + 2], buf[4 * k + 3]>>
DabStep == calls' = calls + 1

\* C2: a lock-alpha dab leaves the alpha channel of every pixel of the tile
\* as it was, whatever the mask, the colour and the opacity.
C2_LockAlphaKeepsAlpha ==
    [][DabStep /\ dab'.op = "LockAlpha"
          => \A k \in DabPixelIdx : rgba'[4 * k + 3] = rgba[4 * k + 3]]_vars

\* a lock-alpha dab has repainted the tile
C2_Witness ==
    /\ calls = 1
    /\ dab.op = "LockAlpha"
    /\ rgba # PatternTile

\* C3: after any sequence of Normal, Normal-and-eraser and Lock-alpha dabs
\* with inputs in 0 .. 2^15, every pixel still has R,G,B <= A <= 2^15.
C3_PremultipliedInvariant ==
    \A k \in DabPixelIdx :
        /\ rgba[4 * k + 3] <= fix15_one
        /\ rgba[4 * k] <= rgba[4 * k + 3]
        /\ rgba[4 * k + 1] <= rgba[4 * k + 3]
        /\ rgba[4 * k + 2] <= rgba[4 * k + 3]

\* two dabs, the last a smudge, have left a translucent pixel that was not
\* in the initial tile and whose red is as large as its alpha
C3_Witness ==
    /\ calls = 2
    /\ dab.op = "Normal_and_Eraser"
    /\ \E k \in DabPixelIdx :
          /\ PixelOf(rgba, k) \notin {PixelSamples[j] : j \in 1 .. Len(PixelSamples)}
          /\ rgba[4 * k + 3] \in 1 .. (fix15_one - 1)
          /\ rgba[4 * k] = rgba[4 * k + 3]

\* The pixels a mask covers when a skip of s moves the position by
\* s * unit elements: unit = 4 reads the skip as pixels, unit = 1 as
\* 16-bit elements.  pos is the element offset of the next pixel; the result
\* pairs the offset of each covered pixel with its mask value.
RECURSIVE Covered(_, _, _, _)
Covered(mask, mi, pos, unit) ==
    IF At(mask, mi) # 0
    THEN {<<pos, At(mask, mi)>>} \cup Covered(mask, mi + 1, pos + 4, unit)
    ELSE IF At(mask, mi + 1) = 0
         THEN {}
         ELSE Covered(mask, mi + 2, pos + unit * At(mask, mi + 1), unit)

\* the dab of this step changes no element outside the pixels at `covered`
\* and, if it is a Normal dab at full opacity, stores its colour at full
\* alpha in every covered pixel whose mask value is 1.0
TouchesExactly(unit) ==
    LET covered == Covered(dab'.mask, 0, 0, unit)
    IN  /\ \A i \in DabElems \ UNION {cv[1] .. (cv[1] + 3) : cv \in covered} :
              rgba'[i] = rgba[i]
        /\ dab'.op = "Normal" /\ dab'.opacity = fix15_one
              => \A cv \in covered :
                    cv[2] = fix15_one
                      => /\ cv[1] + 3 \in DabElems
                         /\ PixelOf(rgba', cv[1] \div 4)
                               = <<dab'.r, dab'.g, dab'.b, fix15_one>>

\* C9 as stated: the dabs touch exactly the pixels of the mask runs, each
\* skip count advancing the position by that many pixels.
C9_SkipCountsPixels == [][DabStep => TouchesExactly(4)]_vars

\* C9 amended: the dabs touch exactly the pixels of the mask runs, each skip
\* count advancing the position by that many 16-bit elements (a quarter of a
\* pixel each); for one run of 10, a skip of 54 and the terminator these are
\* the first 10 pixels.
C9_SkipCountsElements ==
    [][DabStep =>
          /\ TouchesExactly(1)
          /\ dab'.mask = Run10 \o <<0, 54, 0, 0>> =>
                /\ \A i \in DabElems : i >= 40 => rgba'[i] = rgba[i]
                /\ dab'.op = "Normal" /\ dab'.opacity = fix15_one =>
                      \A k \in 0 .. 9 :
                          PixelOf(rgba', k) = <<dab'.r, dab'.g, dab'.b, fix15_one>>]_vars

\* a Normal dab at full opacity went through one run of 10, a skip of 54 and
\* the terminator, or through two runs separated by a skip
C9_Witness ==
    /\ dab.op = "Normal"
    /\ dab.opacity = fix15_one
    /\ dab.mask = Run10 \o <<0, 54, 0, 0>>
    /\ PixelOf(rgba, 9) = <<dab.r, dab.g, dab.b, fix15_one>>

(***************************************************************************)
(* A stroke on a layer and its stroke map: stroke_a is the snapshot taken   *)
(* before the stroke, stroke_b the layer the dabs of the stroke paint into. *)
(***************************************************************************)
InitPaint ==
    /\ \E shift \in 0 .. (Len(LayerSamples) - 1) :
          /\ stroke_a = TileOf(LayerSamples, shift)
          /\ stroke_b = TileOf(LayerSamples, shift)
    /\ stroke_res = [k \in TilePixelIdx |-> 0]
    /\ stroke = [op |-> "none", dabs |-> 0]
    /\ calls = 0
    /\ rgba = << >> /\ dab = NoDab
    /\ IdleMip /\ IdleFlat /\ IdleConv /\ IdleComp /\ IdlePick /\ IdleRace /\ IdleChanger

\* draw_dab_pixels_BlendMode_Normal_and_Eraser(mask, stroke_b, ...)
PaintDab ==
    /\ stroke.dabs < MaxStrokeDabs
    /\ \E mask \in Masks, c \in Colors, color_a \in ColorAlphas,
          opacity \in Opacities :
          /\ stroke_b' = draw_dab_pixels_BlendMode_Normal_and_Eraser(
                             mask, stroke_b, c.r, c.g, c.b, color_a, opacity)
          /\ dab' = [op |-> "Normal_and_Eraser", mask |-> mask, r |-> c.r,
                     g |-> c.g, b |-> c.b, a |-> color_a, opacity |-> opacity]
    /\ stroke' = [op |-> "dab", dabs |-> stroke.dabs + 1]
    /\ calls' = calls + 1
    /\ UNCHANGED <<rgba, stroke_a, stroke_res, mipVars, flatVars, convVars, compVars,
                   pickVars, raceVars, changerVars>>

\* tile_perceptual_change_strokemap(stroke_a, stroke_b, stroke_res)
PaintStrokemap ==
    /\ stroke.op # "strokemap"
    /\ stroke_res' = tile_perceptual_change_strokemap(stroke_a, stroke_b)
    /\ stroke' = [stroke EXCEPT !.op = "strokemap"]
    /\ calls' = calls + 1
    /\ UNCHANGED <<stroke_a, stroke_b, notStroke>>

NextPaint == PaintDab \/ PaintStrokemap

SpecPaint == InitPaint /\ [][NextPaint]_vars

\* C11: when a premultiplied tile is erased by one Normal-and-eraser dab with
\* color_a = 0, of any mask, colour and opacity, the stroke map of the tile
\* before and after the dab is 0 at every pixel.
C11_ErasingSetsNoFlag ==
    stroke.op = "strokemap" /\ stroke.dabs = 1
    /\ dab.op = "Normal_and_Eraser" /\ dab.a = 0
        => \A k \in TilePixelIdx : stroke_res[k] = 0

\* the map of a stroke of one erasing dab that has lowered the alpha of a
\* pixel without clearing it
C11_Witness ==
    /\ stroke.op = "strokemap"
    /\ stroke.dabs = 1
    /\ dab.op = "Normal_and_Eraser"
    /\ dab.a = 0
    /\ Premultiplied(stroke_a)
    /\ \E k \in TilePixelIdx :
          /\ stroke_b[4 * k + 3] > 0
          /\ stroke_b[4 * k + 3] < stroke_a[4 * k + 3]
          /\ stroke_res[k] = 0

(***************************************************************************)
(* Properties of the Normal-and-eraser dab                                 *)
(***************************************************************************)

\* C12: a Normal-and-eraser dab with color_a = 1.0 and a Normal dab of the
\* same mask, colour and opacity leave the same tile behind.
C12_FullColorAIsNormal ==
    [][DabStep /\ (dab'.op = "Normal"
                   \/ (dab'.op = "Normal_and_Eraser" /\ dab'.a = fix15_one))
          => /\ rgba' = draw_dab_pixels_BlendMode_Normal(
                            dab'.mask, rgba, dab'.r, dab'.g, dab'.b, dab'.opacity)
             /\ rgba' = draw_dab_pixels_BlendMode_Normal_and_Eraser(
                            dab'.mask, rgba, dab'.r, dab'.g, dab'.b, fix15_one,
                            dab'.opacity)]_vars

\* a Normal-and-eraser dab with color_a = 1.0 at half opacity has repainted
\* the tile
C12_Witness ==
    /\ calls = 1
    /\ dab.op = "Normal_and_Eraser"
    /\ dab.a = fix15_one
    /\ dab.opacity = 16384
    /\ rgba # PatternTile

\* colours an erasing dab may be handed
EraseColors == Colors \cup {[r |-> 0, g |-> 0, b |-> 0], [r |-> 1, g |-> 32767, b |-> 5]}

\* C13: a Normal-and-eraser dab with color_a = 0 raises no channel of any
\* pixel, and the tile it leaves is the same for every colour argument.
C13_ZeroColorAErases ==
    [][DabStep /\ dab'.op = "Normal_and_Eraser" /\ dab'.a = 0
          => /\ \A i \in DabElems : rgba'[i] <= rgba[i]
             /\ \A c \in EraseColors :
                   rgba' = draw_dab_pixels_BlendMode_Normal_and_Eraser(
                               dab'.mask, rgba, c.r, c.g, c.b, 0, dab'.opacity)]_vars

\* an erasing dab has lowered the alpha of a pixel without clearing it
C13_Witness ==
    /\ calls = 1
    /\ dab.op = "Normal_and_Eraser"
    /\ dab.a = 0
    /\ \E k \in DabPixelIdx :
          /\ rgba[4 * k + 3] > 0
          /\ rgba[4 * k + 3] < PatternTile[4 * k + 3]

\* C19: a Normal-and-eraser dab whose color_a equals the alpha of a pixel it
\* covers leaves that pixel with alpha color_a.
C19_SmudgeKeepsMatchingAlpha ==
    [][DabStep /\ dab'.op = "Normal_and_Eraser"
          => \A cv \in Covered(dab'.mask, 0, 0, 1) :
                rgba[cv[1] + 3] = dab'.a => rgba'[cv[1] + 3] = dab'.a]_vars

(***************************************************************************)
(* Colour picking (get_color_pixels_accumulate)                            *)
(*                                                                         *)
(* A uint32_t accumulator is kept as two 16-bit halves, with a flag that   *)
(* records whether an addition has carried out of the upper half.          *)
(***************************************************************************)
u32_zero == [hi |-> 0, lo |-> 0, ovf |-> FALSE]

\* acc += x in a uint32_t, for 0 <= x < 2^31
u32_add(acc, x) ==
    LET lo == acc.lo + (x % 65536)
        hi == acc.hi + (x \div 65536) + (lo \div 65536)
    IN  [hi |-> hi % 65536, lo |-> lo % 65536, ovf |-> acc.ovf \/ hi >= 65536]

\* the locals weight, r, g, b, a at function entry; prod is the largest
\* product opa*rgba[i] formed so far and n the number of loop bodies run
acc_zero == [weight |-> u32_zero, r |-> u32_zero, g |-> u32_zero,
             b |-> u32_zero, a |-> u32_zero, prod |-> 0, n |-> 0]

\* the loop body with the products added without the division by 2^15
get_color_pixel_NoShift(acc, buf, ri, m) ==
    LET opa == m
    IN  [weight |-> u32_add(acc.weight, opa),
         r |-> u32_add(acc.r, U32(opa * buf[ri + 0])),
         g |-> u32_add(acc.g, U32(opa * buf[ri + 1])),
         b |-> u32_add(acc.b, U32(opa * buf[ri + 2])),
         a |-> u32_add(acc.a, U32(opa * buf[ri + 3])),
         prod |-> MAX(acc.prod, MAX(MAX(opa * buf[ri + 0], opa * buf[ri + 1]),
                                    MAX(opa * buf[ri + 2], opa * buf[ri + 3]))),
         n |-> acc.n + 1]

\* loop body of get_color_pixels_accumulate at rgba offset ri
get_color_pixel(acc, buf, ri, m) ==
    LET opa == m
    IN  [weight |-> u32_add(acc.weight, opa),
         r |-> u32_add(acc.r, U32(opa * buf[ri + 0]) \div fix15_one),
         g |-> u32_add(acc.g, U32(opa * buf[ri + 1]) \div fix15_one),
         b |-> u32_add(acc.b, U32(opa * buf[ri + 2]) \div fix15_one),
         a |-> u32_add(acc.a, U32(opa * buf[ri + 3]) \div fix15_one),
         prod |-> MAX(acc.prod, MAX(MAX(opa * buf[ri + 0], opa * buf[ri + 1]),
                                    MAX(opa * buf[ri + 2], opa * buf[ri + 3]))),
         n |-> acc.n + 1]

\* the locals after the walk over the mask
RECURSIVE get_color_walk(_, _, _, _)
get_color_walk(walk, k, buf, acc) ==
    IF k > Len(walk) THEN acc
    ELSE get_color_walk(walk, k + 1, buf,
                        get_color_pixel(acc, buf, walk[k][1], walk[k][2]))

\* A float holds every integer up to 2^24 exactly.  *sum += x is followed
\* exactly as long as the accumulator and the sum stay in that range; past
\* it the sum is only recorded as no longer exact.
float_exact_max == 16777216
float_zero == [exact |-> TRUE, v |-> 0]
float_add_u32(sum, x) ==
    IF ~sum.exact \/ x.hi >= 256 THEN [exact |-> FALSE, v |-> 0]
    ELSE LET v == sum.v + x.hi * 65536 + x.lo
         IN  IF v > float_exact_max THEN [exact |-> FALSE, v |-> 0]
             ELSE [exact |-> TRUE, v |-> v]

\* get_color_pixels_accumulate: the locals at the end of the walk and the
\* sums it leaves; neither mask nor rgba is stored into
get_color_pixels_accumulate(mask, buf, s) ==
    LET acc == get_color_walk(MaskWalk(mask, 0, 0), 1, buf, acc_zero)
    IN  [acc |-> acc,
         sums |-> [weight |-> float_add_u32(s.weight, acc.weight),
                   r |-> float_add_u32(s.r, acc.r),
                   g |-> float_add_u32(s.g, acc.g),
                   b |-> float_add_u32(s.b, acc.b),
                   a |-> float_add_u32(s.a, acc.a)]]

\* the tile whose pixel k is sample (k + shift) of PixelSamples, cyclically
PickTile(shift) ==
    [i \in DabElems |->
        PixelSamples[((i \div 4 + shift) % Len(PixelSamples)) + 1][(i % 4) + 1]]

InitPick ==
    /\ \E shift \in 0 .. (Len(PixelSamples) - 1) : rgba = PickTile(shift)
    /\ dab = NoDab
    /\ sums = [weight |-> float_zero, r |-> float_zero, g |-> float_zero,
               b |-> float_zero, a |-> float_zero]
    /\ calls = 0
    /\ IdleMip /\ IdleFlat /\ IdleStroke /\ IdleConv /\ IdleComp /\ IdleRace /\ IdleChanger

\* get_color_pixels_accumulate(mask, rgba, &sum_weight, ..., &sum_a)
GetColor ==
    /\ calls < MaxPickCalls
    /\ \E mask \in Masks :
          /\ MaskFits(mask)
          /\ LET res == get_color_pixels_accumulate(mask, rgba, sums)
             IN  /\ sums' = res.sums
                 /\ dab' = [op |-> "get_color", mask |-> mask, acc |-> res.acc]
    /\ calls' = calls + 1
    /\ UNCHANGED <<rgba, notPick>>

NextPick == GetColor

SpecPick == InitPick /\ [][NextPick]_vars

u32_value(x) == x.hi * 65536 + x.lo

\* an accumulator has not carried out of 32 bits and is at most n * 2^15
FitsFor(x, n) == ~x.ovf /\ x.hi < 32768 /\ u32_value(x) <= n * fix15_one

\* C17: over one tile with mask and channel values in 0 .. 2^15, no product
\* opa*channel and none of the accumulators weight, r, g, b, a leaves 32 bits:
\* a product is at most 2^30 and an accumulator at most 2^15 per pixel
\* walked, which for the 64*64 pixels of a tile is 2^27; the tile is left
\* unchanged.
C17_AccumulateFits ==
    [][calls' = calls + 1 /\ dab'.op = "get_color"
          => LET acc == dab'.acc
             IN  /\ acc.n = Len(MaskWalk(dab'.mask, 0, 0))
                 /\ acc.n <= DabPixels
                 /\ acc.prod <= fix15_one * fix15_one
                 /\ FitsFor(acc.weight, acc.n)
                 /\ FitsFor(acc.r, acc.n)
                 /\ FitsFor(acc.g, acc.n)
                 /\ FitsFor(acc.b, acc.n)
                 /\ FitsFor(acc.a, acc.n)
                 /\ 64 * 64 * fix15_one < 2147483647
                 /\ rgba' = rgba]_vars

\* a walk over ten pixels of full mask value, some of them fully opaque
\* white, has been accumulated
C17_Witness ==
    /\ dab.op = "get_color"
    /\ dab.mask = Run10 \o <<0, 54, 0, 0>>
    /\ dab.acc.n = 10
    /\ dab.acc.prod = fix15_one * fix15_one
    /\ u32_value(dab.acc.weight) = 10 * fix15_one
    /\ u32_value(dab.acc.a) > fix15_one
    /\ sums.a.exact /\ sums.a.v >= u32_value(dab.acc.a)

(***************************************************************************)
(* Concurrent first use of the dithering noise                             *)
(*                                                                         *)
(* Two execution contexts call tile_convert_rgba16_to_rgba8.  have_noise   *)
(* and dithering_noise are plain statics: every load and store of them is  *)
(* a step of its own, and the store have_noise = true is not ordered       *)
(* against the stores of the loop, so another context may see it at any    *)
(* point after the test.  A context keeps the entries it has loaded.       *)
(***************************************************************************)
Contexts == {1, 2}

NoContext == [pc |-> "idle", i |-> 0, kind |-> "none", saw |-> "none",
              generated |-> FALSE, stored |-> FALSE, read |-> << >>]

\* the test with the sense of the flag inverted
noise_required_Inverted(flag) == flag

\* if (!have_noise)
noise_required(flag) == ~flag

InitRace ==
    /\ ctx = [t \in Contexts |-> NoContext]
    /\ dithering_noise = [i \in 0 .. (dithering_noise_size - 1) |-> 0]
    /\ have_noise = FALSE
    /\ tile8 = << >> /\ tile16 = << >> /\ conv = [op |-> "none"]
    /\ calls = 0
    /\ IdleDab /\ IdleMip /\ IdleFlat /\ IdleStroke /\ IdleComp /\ IdlePick /\ IdleChanger

\* a context enters the conversion and tests have_noise
RaceEnter(t) ==
    /\ ctx[t].pc = "idle"
    /\ \E kind \in RandKinds :
          ctx' = [ctx EXCEPT ![t] =
                     IF noise_required(have_noise)
                     THEN [@ EXCEPT !.pc = "loop", !.kind = kind,
                                    !.saw = IF have_noise THEN "true" ELSE "false"]
                     ELSE [@ EXCEPT !.pc = "convert",
                                    !.saw = IF have_noise THEN "true" ELSE "false"]]
    /\ calls' = calls + 1
    /\ UNCHANGED <<dithering_noise, have_noise, tile8, tile16, conv, notRace>>

\* dithering_noise[i] = ... for one of the entries followed
RaceGenerate(t) ==
    /\ ctx[t].pc = "loop"
    /\ ctx[t].i < RaceEntries
    /\ dithering_noise' = [dithering_noise EXCEPT
                              ![ctx[t].i] = noise_value(rand(ctx[t].kind, ctx[t].i))]
    /\ ctx' = [ctx EXCEPT ![t].i = @ + 1]
    /\ UNCHANGED <<have_noise, tile8, tile16, conv, notRace, calls>>

\* the remaining rounds of the loop
RaceGenerateRest(t) ==
    /\ ctx[t].pc = "loop"
    /\ ctx[t].i = RaceEntries
    /\ dithering_noise' =
          [j \in 0 .. (dithering_noise_size - 1) |->
              IF j >= RaceEntries THEN noise_value(rand(ctx[t].kind, j))
              ELSE dithering_noise[j]]
    /\ ctx' = [ctx EXCEPT ![t] =
                  [@ EXCEPT !.pc = IF ctx[t].stored THEN "convert" ELSE "set",
                            !.i = 0, !.generated = TRUE]]
    /\ UNCHANGED <<have_noise, tile8, tile16, conv, notRace, calls>>

\* have_noise = true becomes visible
RaceSetFlag(t) ==
    /\ ctx[t].pc \in {"loop", "set"}
    /\ ~ctx[t].stored
    /\ have_noise' = TRUE
    /\ ctx' = [ctx EXCEPT ![t] =
                  [@ EXCEPT !.stored = TRUE,
                            !.pc = IF ctx[t].pc = "set" THEN "convert" ELSE "loop",
                            !.i = IF ctx[t].pc = "set" THEN 0 ELSE ctx[t].i]]
    /\ UNCHANGED <<dithering_noise, tile8, tile16, conv, notRace, calls>>

\* add = dithering_noise[noise_idx++] for one of the entries followed
RaceRead(t) ==
    /\ ctx[t].pc = "convert"
    /\ ctx[t].i < RaceEntries
    /\ ctx' = [ctx EXCEPT ![t] =
                  [@ EXCEPT !.read = Append(@, dithering_noise[ctx[t].i]),
                            !.i = @ + 1]]
    /\ UNCHANGED <<dithering_noise, have_noise, tile8, tile16, conv, notRace, calls>>

\* the remaining pixels of the tile
RaceReadRest(t) ==
    /\ ctx[t].pc = "convert"
    /\ ctx[t].i = RaceEntries
    /\ ctx' = [ctx EXCEPT ![t].pc = "done"]
    /\ UNCHANGED <<dithering_noise, have_noise, tile8, tile16, conv, notRace, calls>>

NextRace ==
    \E t \in Contexts :
        \/ RaceEnter(t)
        \/ RaceGenerate(t)
        \/ RaceGenerateRest(t)
        \/ RaceSetFlag(t)
        \/ RaceRead(t)
        \/ RaceReadRest(t)

SpecRace == InitRace /\ [][NextRace]_vars

\* C15: nothing keeps a second context out of the generation loop: every
\* context that enters a conversion before have_noise is set runs the whole
\* loop before it converts, so with two such contexts both run it, and one
\* may then store an entry the other has already loaded (the witness).
C15_EveryEarlyContextGenerates ==
    \A t \in Contexts :
        /\ ctx[t].saw = "false" => ctx[t].pc # "idle"
        /\ ctx[t].saw = "false" /\ ctx[t].pc \in {"convert", "done"}
              => ctx[t].generated
        /\ ctx[t].saw = "true" => ~ctx[t].generated /\ ctx[t].pc \in {"convert", "done"}

\* both contexts found have_noise unset and ran the loop, and entry 0 no
\* longer holds the value one of them loaded from it for its conversion
C15_Witness ==
    \E t \in Contexts, u \in Contexts :
        /\ t # u
        /\ ctx[t].saw = "false" /\ ctx[u].saw = "false"
        /\ ctx[t].generated /\ ctx[u].generated
        /\ Len(ctx[u].read) >= 1
        /\ ctx[u].read[1] # dithering_noise[0]

(***************************************************************************)
(* Colour changer (lib/colorchanger.hpp)                                   *)
(*                                                                         *)
(* Coordinates and brush colours are floats.  A coordinate is given in     *)
(* halves (x2 = 2 * x_), hue in units of 1/360 and saturation and value in *)
(* units of 1/255; the float arithmetic of precalc_data is carried out     *)
(* exactly and (int) truncates towards zero.  The pixels render writes come *)
(* from the colour management library and are not followed.               *)
(***************************************************************************)
size == 256

\* (int) of the quotient num / den, den > 0
int_of(num, den) == IF num < 0 THEN -((-num) \div den) ELSE num \div den

SIGN(x) == IF x > 0 THEN 1 ELSE -1

\* result[y*width + x] of precalc_data; phase0 is not used by the code
precalc_entry(x, y) ==
    LET stripe_width == 20
        dx == x - size \div 2
        dy == y - size \div 2
        \* h in tenths: float(dy -+ stripe_width)/stripe_width * 16
        h10 == IF dy > 0 THEN 8 * (dy - stripe_width) ELSE 8 * (dy + stripe_width)
        \* h*h_factor + factor2_func(h)*h_factor2, in units of 1/5000
        h5000 == h10 * 200 + h10 * h10 * SIGN(h10)
        far == 10 * abs(dx) > 3 * size
        min == MIN(abs(dx), abs(dy))
        \* dx*v_factor + factor2_func(dx)*v_factor2, in units of 1/1000
        v1000 == dx * 600 + dx * dx * SIGN(dx) * 13
        s1000 == -(dy * 600 + dy * dy * SIGN(dy) * 13)
    IN  IF min < stripe_width
        THEN [h |-> 0,
              v |-> IF abs(dx) > abs(dy) THEN int_of(v1000, 1000) ELSE 0,
              s |-> IF abs(dx) > abs(dy) THEN 0 ELSE int_of(s1000, 1000)]
        ELSE [h |-> int_of(h5000, 5000),
              v |-> IF far THEN 10000 ELSE 0,
              s |-> IF far THEN 10000 ELSE 0]

\* get_hsv: h in units of 1/360, s and v in units of 1/255
get_hsv(brush, pre) ==
    [h |-> (brush.h + pre.h) % 360,
     s |-> CLAMP(brush.s + pre.s, 0, 255),
     v |-> CLAMP(brush.v + pre.v, 0, 255)]

\* what a read past the end of the malloc'ed table may find
GarbageEntries == {[h |-> 0, s |-> 0, v |-> 0], [h |-> -7, s |-> 31000, v |-> -1]}

\* the index pick_color_at adds to pre:
\*   int x = CLAMP(x_, 0, size); int y = CLAMP(y_, 0, size); y*size + x
pick_offset(x2, y2) ==
    LET x == CLAMP(x2, 0, 2 * size) \div 2
        y == CLAMP(y2, 0, 2 * size) \div 2
    IN  y * size + x

\* brush colours; the fields are not initialised by the constructor
BrushColors == {[h |-> 0, s |-> 0, v |-> 0], [h |-> 350, s |-> 128, v |-> 255]}

\* coordinates -1, 0, 0.5, 127.5, 255, 255.5, 256 and 300
Coords2 == {-2, 0, 1, 255, 510, 511, 512, 600}

\* the values the uninitialised index i of Lab[5] may hold in render
LabIndexes == {0, 4, 5}

\* ColorChanger(): precalcDataIndex = -1 and four NULL tables
InitChanger ==
    /\ \E brush \in BrushColors :
          cc = [brush |-> brush, precalcDataIndex |-> -1,
                precalcData |-> [k \in 0 .. 3 |-> FALSE]]
    /\ picked = [op |-> "none"]
    /\ calls = 0
    /\ IdleDab /\ IdleMip /\ IdleFlat /\ IdleStroke /\ IdleConv /\ IdleComp
    /\ IdlePick /\ IdleRace

set_brush_color ==
    /\ calls < MaxChangerCalls
    /\ \E brush \in BrushColors : cc' = [cc EXCEPT !.brush = brush]
    /\ picked' = [op |-> "set_brush_color"]
    /\ calls' = calls + 1
    /\ UNCHANGED notChanger

\* render: the next of the four slots becomes current and gets its table
render ==
    /\ calls < MaxChangerCalls
    /\ LET idx == (cc.precalcDataIndex + 1) % 4
       IN  cc' = [cc EXCEPT !.precalcDataIndex = idx, !.precalcData[idx] = TRUE]
    /\ \E i \in LabIndexes :
          picked' = [op |-> "render", lab_i |-> i, lab_inside |-> i \in 0 .. 4]
    /\ calls' = calls + 1
    /\ UNCHANGED notChanger

\* pick_color_at(x_, y_), called once a table is current
pick_color_at ==
    /\ calls < MaxChangerCalls
    /\ cc.precalcDataIndex >= 0
    /\ cc.precalcData[cc.precalcDataIndex]
    /\ \E x2 \in Coords2, y2 \in Coords2 :
          LET offset == pick_offset(x2, y2)
              inside == offset \in 0 .. (size * size - 1)
          IN  \E pre \in IF inside
                         THEN {precalc_entry(offset % size, offset \div size)}
                         ELSE GarbageEntries :
                 picked' = [op |-> "pick_color_at", x2 |-> x2, y2 |-> y2,
                            offset |-> offset, inside |-> inside, pre |-> pre,
                            hsv |-> get_hsv(cc.brush, pre)]
    /\ calls' = calls + 1
    /\ UNCHANGED <<cc, notChanger>>

NextChanger == set_brush_color \/ render \/ pick_color_at

SpecChanger == InitChanger /\ [][NextChanger]_vars

\* C21: after a render, pick_color_at reads an entry inside the size*size
\* table of the current slot for every coordinate pair, also at and beyond
\* the edges.
C21_PickReadsInsideTable ==
    picked.op = "pick_color_at"
        => /\ cc.precalcDataIndex \in 0 .. 3
           /\ cc.precalcData[cc.precalcDataIndex]
           /\ picked.offset \in 0 .. (size * size - 1)

====
